---- MODULE Spec2Model ----
(***************************************************************************)
(* The strand execution engine (src/src/agents/strand_agent.py), the       *)
(* learning step policy (src/src/agents/learning_agent.py) and the         *)
(* invocation client (src/src/services/bedrock_service.py).                *)
(*                                                                         *)
(* One step of the model is the code a coroutine runs between two          *)
(* suspension points: asyncio runs it without interleaving.                *)
(***************************************************************************)
EXTENDS Integers, Sequences, FiniteSets, TLC

\* ---------------------------------------------------------------- bounds
MaxIter == 2      \* largest max_iterations a context is created with
MaxTime == 2      \* the clock runs from 0 to MaxTime
MaxTimeout == 2   \* largest timeout override handed to execute
MaxCalls == 2     \* engine calls (execute, resume) in one behaviour
MaxAsks == 3      \* ask_question calls in one behaviour
MaxEvents == 3    \* events of one response stream

\* ------------------------------------------------------ program constants
AgentTimeout == 300   \* settings.agent_timeout
StopAfterAttempt == 3 \* stop_after_attempt(3)
WaitMultiplier == 1   \* wait_exponential(multiplier=1, min=2, max=10)
WaitMin == 2
WaitMax == 10
Unset == -1           \* None, for the optional numbers (start_time, end_time, metadata)

None == "none"

TaskIds == {"t1", "t2"}
CtxIds == {"c1", "c2"}
Policies == {"always", "any", "learning"}

Terminal == {"completed", "failed", "timeout"}
StrandState == {"idle", "running", "paused"} \cup Terminal

VARIABLES
    policy,     \* the step policy of the agent (the subclass of StrandAgent)
    ctx,        \* ctx[c]: the StrandContext c
    task,       \* task[t]: the engine call (execute or resume) coroutine t runs
    now,        \* datetime.utcnow()
    ncalls,     \* engine calls made so far
    inv,        \* the call of the invocation client (BedrockService) under way
    sessions,   \* LearningAgent._active_contexts: session id -> context
    stream,     \* the invoke_model_stream call under way
    wire        \* a context, its transport shape (to_dict) and what is read back

vars == <<policy, ctx, task, now, ncalls, inv, sessions, stream, wire>>

\* ------------------------------------------------------------ StrandContext
\* variables: a dict, here a function whose domain is the keys present
NoVariables == [k \in {} |-> None]

Has(v, k) == k \in DOMAIN v

SetVar(v, k, val) == [x \in DOMAIN v \cup {k} |-> IF x = k THEN val ELSE v[x]]

\* strand_id, session_id: uuid4 strings, here named after the context ("x":
\* the id of no context)
StrandIdOf(id) ==
    CASE id = "c1" -> "strand-c1" [] id = "c2" -> "strand-c2" [] OTHER -> None

SessionIdOf(id) ==
    CASE id = "c1" -> "session-c1" [] id = "c2" -> "session-c2"
      [] id = "x" -> "session-x" [] OTHER -> None

NewContext(id, maxit) ==
    [strand_id |-> StrandIdOf(id), session_id |-> SessionIdOf(id),
     state |-> "idle", messages |-> <<>>, variables |-> NoVariables,
     iteration |-> 0, max_iterations |-> maxit,
     start_time |-> Unset, end_time |-> Unset, error |-> None]

\* A bug: the message is put in front of the history.
add_message_AtFront(cx, role, content, iter) ==
    [cx EXCEPT !.messages =
        <<[role |-> role, content |-> content, iteration |-> iter]>> \o @]

\* StrandContext.add_message, lines 63-66; iter is metadata["iteration"]
add_message(cx, role, content, iter) ==
    [cx EXCEPT !.messages =
        Append(@, [role |-> role, content |-> content, iteration |-> iter])]

\* ------------------------------------------------------------- StrandAgent
\* A bug: the input is appended whether or not there is a history.
EnterExecute_AlwaysAppends(cx, initial_input) ==
    [add_message(cx, "user", initial_input, Unset)
        EXCEPT !.state = "running", !.start_time = now]

\* A bug: the input is dropped.
EnterExecute_NeverAppends(cx, initial_input) ==
    [cx EXCEPT !.state = "running", !.start_time = now]

\* execute, lines 152-161: the code before the loop.
EnterExecute(cx, initial_input) ==
    LET c1 == IF cx.messages = <<>>
              THEN add_message(cx, "user", initial_input, Unset)
              ELSE cx
    IN  [c1 EXCEPT !.state = "running", !.start_time = now]

\* timeout or self.settings.agent_timeout (0 stands for None and for 0: both falsy)
TimeoutSeconds(timeout) == IF timeout = 0 THEN AgentTimeout ELSE timeout

\* A bug: the budget check is off by one.
BudgetExceeded_OffByOne(cx) == cx.iteration > cx.max_iterations

\* A bug: the budget is not checked.
BudgetExceeded_Unchecked(cx) == FALSE

\* _execute_loop, line 234
BudgetExceeded(cx) == cx.iteration >= cx.max_iterations

\* A bug: IDLE again once the work is done.
CompletedContext_BackToIdle(cx) == [cx EXCEPT !.state = "idle", !.end_time = now]

\* A bug: the counter is not advanced.
AfterStep_NoIncrement(cx) == cx

\* _execute_loop, line 248
AfterStep(cx) == [cx EXCEPT !.iteration = @ + 1]

\* A bug: the state is left as it was.
CompletedContext_StateKept(cx) == [cx EXCEPT !.end_time = now]

\* execute, lines 177-178
CompletedContext(cx) == [cx EXCEPT !.state = "completed", !.end_time = now]

\* A bug: the timeout is recorded as a plain failure.
TimedOutContext_AsFailed(cx) ==
    [cx EXCEPT !.state = "failed", !.end_time = now,
               !.error = "Execution timed out"]

\* execute, lines 190-192
TimedOutContext(cx) ==
    [cx EXCEPT !.state = "timeout", !.end_time = now,
               !.error = "Execution timed out"]

\* A bug: the end is not timestamped.
FailedContext_NoEndTime(cx, msg) ==
    [cx EXCEPT !.state = "failed", !.error = msg]

\* execute, lines 206-208
FailedContext(cx, msg) ==
    [cx EXCEPT !.state = "failed", !.end_time = now, !.error = msg]

\* A bug: resume only refuses a running context.
ResumeAllowed_NotRunning(cx) == cx.state # "running"

\* resume, line 314
ResumeAllowed(cx) == cx.state = "paused"

\* ------------------------------------------------------------- step policy
\* User inputs and model responses are tokens; what the code asks of a text
\* (is a phrase in it?) is a table over the tokens.
Inputs == {"explain recursion", "solve this problem"}
Responses == {"here is how", "does it help?", "you've mastered it"}

\* The inputs that tell the policies' runs apart: an abstract policy does
\* not read the text.
InputsOf(p) == IF p = "learning" THEN Inputs ELSE {"explain recursion"}

\* LearningAgent._identify_learning_goal, lines 186-201
_identify_learning_goal(user_input) ==
    IF user_input \in {"explain recursion"} THEN "concept_explanation"
    ELSE IF user_input \in {"solve this problem"} THEN "problem_solving"
    ELSE "concept_explanation"

\* LearningAgent.should_continue, lines 162-169
HasCompletionPhrase(response) == response \in {"you've mastered it"}

\* LearningAgent._update_learning_progress, lines 271 and 275-278
HasQuestionMark(response) == response \in {"does it help?"}
HasPraise(response) == response \in {"you've mastered it"}

OfRole(cx, role) == SelectSeq(cx.messages, LAMBDA m : m.role = role)

Last(s) == s[Len(s)]

\* A bug: the learning_complete entry is not looked at.
LearningShouldContinue_IgnoresFlag(cx) ==
    IF /\ OfRole(cx, "assistant") # <<>>
       /\ HasCompletionPhrase(Last(OfRole(cx, "assistant")).content)
    THEN FALSE
    ELSE cx.iteration < cx.max_iterations

\* A bug: the last step of the budget is not taken.
LearningShouldContinue_StopsEarly(cx) ==
    IF Has(cx.variables, "learning_complete")
    THEN ~cx.variables["learning_complete"]
    ELSE IF /\ OfRole(cx, "assistant") # <<>>
            /\ HasCompletionPhrase(Last(OfRole(cx, "assistant")).content)
         THEN FALSE
         ELSE cx.iteration + 1 < cx.max_iterations

\* LearningAgent.should_continue, lines 153-174: the value returned
LearningShouldContinue(cx) ==
    IF Has(cx.variables, "learning_complete")
    THEN ~cx.variables["learning_complete"]
    ELSE IF /\ OfRole(cx, "assistant") # <<>>
            /\ HasCompletionPhrase(Last(OfRole(cx, "assistant")).content)
         THEN FALSE
         ELSE cx.iteration < cx.max_iterations

\* LearningAgent.should_continue, line 170: what the call does to the context
LearningShouldContinueEffect(cx) ==
    IF /\ ~Has(cx.variables, "learning_complete")
       /\ OfRole(cx, "assistant") # <<>>
       /\ HasCompletionPhrase(Last(OfRole(cx, "assistant")).content)
    THEN [cx EXCEPT !.variables = SetVar(@, "learning_complete", TRUE)]
    ELSE cx

\* The values should_continue may return on cx. The abstract method
\* (strand_agent.py 120-130) may return either; "always" is the policy that
\* never stops.
ShouldContinueValues(cx) ==
    CASE policy = "always" -> {TRUE}
      [] policy = "any" -> BOOLEAN
      [] policy = "learning" -> {LearningShouldContinue(cx)}

\* The context after should_continue ran on it.
ShouldContinueEffect(cx) ==
    IF policy = "learning" THEN LearningShouldContinueEffect(cx) ELSE cx

\* LearningAgent.process_step, lines 92-97: no user message to answer
StepCannotStart(cx) == policy = "learning" /\ OfRole(cx, "user") = <<>>

\* A bug: the answer's place in the history is taken before the model is invoked.
LearningBeforeInvoke_WritesMessage(cx) ==
    add_message(cx, "assistant", "partial", cx.iteration)

\* LearningAgent.process_step, lines 99-105: the code before the model is invoked
LearningBeforeInvoke(cx) ==
    IF Has(cx.variables, "learning_goal") THEN cx
    ELSE [cx EXCEPT !.variables = SetVar(@, "learning_goal",
              _identify_learning_goal(Last(OfRole(cx, "user")).content))]

\* LearningAgent._update_learning_progress, lines 260-279
_update_learning_progress(cx, response) ==
    LET v0 == cx.variables
        v1 == IF Has(v0, "progress") THEN v0
              ELSE SetVar(v0, "progress",
                       [topics_covered |-> <<>>, questions_asked |-> 0,
                        concepts_explained |-> 0, problems_solved |-> 0])
        v2 == IF HasQuestionMark(response)
              THEN SetVar(v1, "progress",
                       [v1["progress"] EXCEPT !.questions_asked = @ + 1])
              ELSE v1
        v3 == IF HasPraise(response)
              THEN SetVar(v2, "comprehension_level",
                       (IF Has(v2, "comprehension_level")
                        THEN v2["comprehension_level"] ELSE 0) + 1)
              ELSE v2
    IN  [cx EXCEPT !.variables = v3]

\* LearningAgent.process_step, lines 124-134: the code after the model answered
LearningAfterInvoke(cx, response) ==
    _update_learning_progress(
        add_message(cx, "assistant", response, cx.iteration), response)

\* process_step up to its suspension: the contexts it may leave. An abstract
\* step may or may not have written to the context by then.
StepBefore(cx) ==
    IF policy = "learning" THEN {LearningBeforeInvoke(cx)}
    ELSE {cx, add_message(cx, "assistant", "partial", Unset)}

\* process_step from its suspension to its return. An abstract step appends
\* its answer (process_step "must return a context with at least one new
\* message appended").
StepAfter(cx) ==
    IF policy = "learning"
    THEN {LearningAfterInvoke(cx, r) : r \in Responses}
    ELSE {add_message(cx, "assistant", "answer", Unset)}

\* What a step may raise. LearningAgent.process_step (lines 136-141) turns
\* every Exception into AgentExecutionError; an abstract step may raise
\* asyncio.TimeoutError itself (a wait_for of its own).
StepErrors ==
    IF policy = "learning" THEN {"AgentExecutionError"}
    ELSE {"AgentExecutionError", "TimeoutError"}

StepErrorText(kind) ==
    IF policy = "learning" THEN "Failed to process learning step" ELSE kind

\* ------------------------------------------------------------------- tasks
\* What a step policy writes of a context.
Written(cx) ==
    [messages |-> cx.messages, variables |-> cx.variables,
     iteration |-> cx.iteration]

\* pc: where the coroutine stands ("check": about to call should_continue,
\* "await": suspended in process_step, "done": the call has ended);
\* calls, completed, checks: the process_step calls made, those that returned
\* and the should_continue calls made in this engine call; entry_iteration:
\* the context's iteration when the call began; suspended: what the step in
\* flight had written when it suspended; outcome, cause,
\* detail_state: what the caller got; ended: the context as the call left it;
\* initial_input, timeout_seconds: the input and the timeout of the call;
\* deadline: when the timer of asyncio.wait_for is due; step_start: when the
\* process_step call in flight was made; via: "direct", or "ask_question"
\* when LearningAgent.ask_question made the call, asked then being the
\* session_id it was given; details: the keys of the details of the error
\* the caller got.
IdleTask ==
    [pc |-> "none", op |-> None, ctx |-> None, deadline |-> Unset,
     initial_input |-> None, timeout_seconds |-> Unset, step_start |-> Unset,
     via |-> None, asked |-> None, details |-> {},
     calls |-> 0, completed |-> 0, checks |-> 0, entry_iteration |-> 0,
     suspended |-> Written(NewContext(None, 0)),
     outcome |-> None, cause |-> None, detail_state |-> None,
     ended |-> NewContext(None, 0)]

Free(t) == task[t].pc \in {"none", "done"}

\* No engine call is running on context c.
NotInFlight(c) == \A t \in TaskIds : Free(t) \/ task[t].ctx # c

\* execute, lines 200-203 and 216-219: the details of the error raised
ErrorDetails(outcome) ==
    CASE outcome = "AgentTimeoutError" -> {"strand_id", "timeout"}
      [] outcome = "AgentExecutionError" -> {"strand_id", "error"}
      [] OTHER -> {}

\* The call of task t ends: what the caller gets, and the context as it is then.
Finish(t, outcome, cause, cx) ==
    [task EXCEPT ![t].pc = "done", ![t].outcome = outcome, ![t].cause = cause,
                 ![t].details = ErrorDetails(outcome), ![t].ended = cx]

\* execute, lines 189-203: except asyncio.TimeoutError
OnTimeoutError(t, cause) ==
    LET c == task[t].ctx
        cx == TimedOutContext(ctx[c]) IN
    /\ ctx' = [ctx EXCEPT ![c] = cx]
    /\ task' = Finish(t, "AgentTimeoutError", cause, cx)

\* execute, lines 205-219: except Exception
OnException(t, cause, msg) ==
    LET c == task[t].ctx
        cx == FailedContext(ctx[c], msg) IN
    /\ ctx' = [ctx EXCEPT ![c] = cx]
    /\ task' = Finish(t, "AgentExecutionError", cause, cx)

\* execute(initial_input, context, timeout) up to its first suspension
\* (asyncio.wait_for schedules _execute_loop and yields).
Begin(t, c, op, via, asked, initial_input, timeout) ==
    /\ Free(t)
    /\ ncalls < (IF via = "ask_question" THEN MaxAsks ELSE MaxCalls)
    /\ ncalls' = ncalls + 1
    /\ ctx' = [ctx EXCEPT ![c] = EnterExecute(ctx[c], initial_input)]
    /\ task' = [task EXCEPT ![t] =
            [IdleTask EXCEPT !.pc = "check", !.op = op, !.ctx = c,
                 !.via = via, !.asked = asked,
                 !.initial_input = initial_input,
                 !.timeout_seconds = TimeoutSeconds(timeout),
                 !.deadline = now + TimeoutSeconds(timeout),
                 !.entry_iteration = ctx[c].iteration]]
    /\ UNCHANGED <<policy, now, inv, sessions, stream, wire>>

\* execute called by the owner of the context
Execute(t, c) ==
    \E initial_input \in InputsOf(policy), timeout \in 0..MaxTimeout :
        /\ NotInFlight(c)
        /\ Begin(t, c, "execute", "direct", None, initial_input, timeout)

\* resume(context), lines 320-321
ResumeAccepted(t, c) ==
    /\ NotInFlight(c)
    /\ ResumeAllowed(ctx[c])
    /\ Begin(t, c, "resume", "direct", None, "", 0)

\* resume(context), lines 314-318
ResumeRejected(t, c) ==
    /\ Free(t)
    /\ NotInFlight(c)
    /\ ~ResumeAllowed(ctx[c])
    /\ ncalls < MaxCalls
    /\ ncalls' = ncalls + 1
    /\ task' = [task EXCEPT ![t] =
            [IdleTask EXCEPT !.pc = "done", !.op = "resume", !.ctx = c,
                 !.entry_iteration = ctx[c].iteration, !.ended = ctx[c],
                 !.via = "direct", !.details = {"strand_id", "state"},
                 !.outcome = "AgentExecutionError", !.cause = "not_paused",
                 !.detail_state = ctx[c].state]]
    /\ UNCHANGED <<policy, ctx, now, inv, sessions, stream, wire>>

\* A bug: pausing restarts the timers.
PausedContext_ClearsTimers(cx) ==
    [cx EXCEPT !.state = "paused", !.start_time = Unset, !.end_time = Unset]

\* pause, line 299
PausedContext(cx) == [cx EXCEPT !.state = "paused"]

\* Another coroutine can run only while the engine call on c is suspended:
\* in asyncio.wait_for before the loop starts (line 172) or in process_step
\* (line 247). Between a step's return and the next should_continue
\* (lines 247-248, 233) there is no await.
AtSuspension(c) ==
    \A t \in TaskIds :
        (task[t].pc = "check" /\ task[t].ctx = c) => task[t].checks = 0

\* pause(context), lines 293-300
Pause(c) ==
    /\ AtSuspension(c)
    /\ ctx' = [ctx EXCEPT ![c] = PausedContext(ctx[c])]
    /\ UNCHANGED <<policy, task, now, ncalls, inv, sessions, stream, wire>>

\* ask_question, lines 330-341: the response made of the context execute returned
Response(cx) ==
    [answer |-> IF OfRole(cx, "assistant") = <<>> THEN ""
                ELSE Last(OfRole(cx, "assistant")).content,
     session_id |-> cx.session_id,
     strand_id |-> cx.strand_id,
     learning_goal |-> IF Has(cx.variables, "learning_goal")
                       THEN cx.variables["learning_goal"] ELSE None,
     iteration |-> cx.iteration,
     complete |-> IF Has(cx.variables, "learning_complete")
                  THEN cx.variables["learning_complete"] ELSE FALSE]

\* ask_question, lines 325-328: the context execute returned is stored under
\* its session_id. answered and answer are the iteration and the answer the
\* response carries (kept beside the context to compare later responses
\* with them).
Stored(store, c, cx) ==
    [k \in DOMAIN store \cup {cx.session_id} |->
        IF k = cx.session_id
        THEN [context |-> c, answered |-> cx.iteration,
              answer |-> Response(cx).answer]
        ELSE store[k]]

\* The session ids a caller of ask_question can name: none, one that a
\* response gave it, or one that no response ever gave.
SessionIdsAsked == {None, SessionIdOf("x")} \cup DOMAIN sessions

\* A context not yet created (StrandContext() at execute, line 154, makes the
\* next one).
Fresh(c) == ctx[c].state = "idle" /\ \A t \in TaskIds : task[t].ctx # c

NextFresh == IF Fresh("c1") THEN "c1" ELSE "c2"

\* A bug: the store is not consulted.
StoredContext_Forgets(session_id) == None

\* ask_question, lines 318-320: the context stored for session_id, if any
StoredContext(session_id) ==
    IF session_id # None /\ session_id \in DOMAIN sessions
    THEN sessions[session_id].context ELSE None

\* ask_question, lines 317-323: the stored context of the session, if there
\* is one, else none, and execute on it.
AskQuestion(t) ==
    \E question \in Inputs, session_id \in SessionIdsAsked :
        LET found == StoredContext(session_id)
            c == IF found # None THEN found ELSE NextFresh IN
        /\ policy = "learning"
        /\ found # None \/ Fresh(c)
        /\ Begin(t, c, "execute", "ask_question", session_id, question, 0)

\* _execute_loop, line 233: should_continue returned False; execute, lines 177-187
LoopStop(t) ==
    LET c == task[t].ctx IN
    /\ task[t].pc = "check"
    /\ FALSE \in ShouldContinueValues(ctx[c])
    /\ LET cx == CompletedContext(ShouldContinueEffect(ctx[c])) IN
        /\ ctx' = [ctx EXCEPT ![c] = cx]
        /\ task' = [Finish(t, "returned", "completed", cx)
                       EXCEPT ![t].checks = @ + 1]
        /\ sessions' = IF task[t].via = "ask_question"
                       THEN Stored(sessions, c, cx) ELSE sessions
    /\ UNCHANGED <<policy, now, ncalls, inv, stream, wire>>

\* _execute_loop, lines 233-238: the budget is spent; execute, lines 205-219
LoopBudget(t) ==
    LET c == task[t].ctx IN
    /\ task[t].pc = "check"
    /\ TRUE \in ShouldContinueValues(ctx[c])
    /\ BudgetExceeded(ctx[c])
    /\ LET cx == FailedContext(ShouldContinueEffect(ctx[c]),
                               "Maximum iterations exceeded") IN
        /\ ctx' = [ctx EXCEPT ![c] = cx]
        /\ task' = [Finish(t, "AgentExecutionError", "budget", cx)
                       EXCEPT ![t].checks = @ + 1]
    /\ UNCHANGED <<policy, now, ncalls, inv, sessions, stream, wire>>

\* _execute_loop, lines 233-247: process_step is called and runs to its suspension
StepStart(t) ==
    LET c == task[t].ctx IN
    /\ task[t].pc = "check"
    /\ TRUE \in ShouldContinueValues(ctx[c])
    /\ ~BudgetExceeded(ctx[c])
    /\ IF StepCannotStart(ctx[c])
       THEN LET cx == FailedContext(ctx[c], StepErrorText("AgentExecutionError")) IN
            /\ ctx' = [ctx EXCEPT ![c] = cx]
            /\ task' = [Finish(t, "AgentExecutionError", "step", cx)
                           EXCEPT ![t].checks = @ + 1, ![t].calls = @ + 1]
       ELSE \E cx \in StepBefore(ShouldContinueEffect(ctx[c])) :
            /\ ctx' = [ctx EXCEPT ![c] = cx]
            /\ task' = [task EXCEPT ![t].pc = "await", ![t].checks = @ + 1,
                                    ![t].calls = @ + 1,
                                    ![t].step_start = now,
                                    ![t].suspended = Written(cx)]
    /\ UNCHANGED <<policy, now, ncalls, inv, sessions, stream, wire>>

\* A bug: every iteration of the loop gets the whole timeout anew.
DeadlineAfterStep_Reset(t) == now + task[t].timeout_seconds

\* execute, lines 172-175: wait_for wraps the whole loop, so a step that
\* returns leaves the timer as it is.
DeadlineAfterStep(t) == task[t].deadline

\* _execute_loop, lines 247-248: process_step returns
StepFinish(t) ==
    LET c == task[t].ctx IN
    /\ task[t].pc = "await"
    /\ \E cx \in StepAfter(ctx[c]) :
            ctx' = [ctx EXCEPT ![c] = AfterStep(cx)]
    /\ task' = [task EXCEPT ![t].pc = "check", ![t].completed = @ + 1,
                            ![t].deadline = DeadlineAfterStep(t),
                            ![t].step_start = Unset,
                            ![t].suspended = Written(NewContext(None, 0))]
    /\ UNCHANGED <<policy, now, ncalls, inv, sessions, stream, wire>>

\* process_step raises; execute, lines 189-219
StepRaise(t) ==
    /\ task[t].pc = "await"
    /\ \E kind \in StepErrors :
        IF kind = "TimeoutError"
        THEN OnTimeoutError(t, "step_timeout")
        ELSE OnException(t, "step", StepErrorText(kind))
    /\ UNCHANGED <<policy, now, ncalls, inv, sessions, stream, wire>>

\* asyncio.wait_for, lines 172-175: the deadline passes while the step is
\* suspended; the step is cancelled and execute gets asyncio.TimeoutError
DeadlineTimeout(t) ==
    /\ task[t].pc = "await"
    /\ now >= task[t].deadline
    /\ OnTimeoutError(t, "deadline")
    /\ UNCHANGED <<policy, now, ncalls, inv, sessions, stream, wire>>

\* Time passes while a step is suspended (the code between two suspensions
\* takes no time); the event loop fires a due deadline before it lets more
\* time pass.
Tick ==
    /\ now < MaxTime
    /\ \E t \in TaskIds : task[t].pc = "await"
    /\ \A t \in TaskIds : task[t].pc # "check"
    /\ \A t \in TaskIds : task[t].pc = "await" => now < task[t].deadline
    /\ now' = now + 1
    /\ UNCHANGED <<policy, ctx, task, ncalls, inv, sessions, stream, wire>>

\* ------------------------------------------------------- invocation client
\* What the endpoint does when it is called: it answers, or the boto3 client
\* raises ClientError (with the endpoint's error code) or ConnectionError, or
\* it answers with bytes the function body cannot decode (json.loads at line
\* 129, decode at line 277: a ValueError raised locally).
Outcomes ==
    {"ok", "ThrottlingException", "ValidationException", "ConnectionError",
     "ValueError"}

\* The failures the design calls transient.
Transient == {"ThrottlingException", "ConnectionError"}

\* An exception: its class, the endpoint's error code (ClientError and what
\* is made of it) and the text of the failure it reports.
NoError == [type |-> "none", code |-> None, message |-> None]

\* The exception the boto3 client raises for an outcome of the endpoint.
EndpointRaises(outcome) ==
    CASE outcome = "ok" -> NoError
      [] outcome = "ConnectionError" ->
            [type |-> "ConnectionError", code |-> None, message |-> outcome]
      [] outcome = "ValueError" ->
            [type |-> "ValueError", code |-> None, message |-> outcome]
      [] OTHER -> [type |-> "ClientError", code |-> outcome, message |-> outcome]

\* invoke_model, lines 140-154: what leaves the function body when the
\* endpoint call raised exc. except ClientError keeps the code; except
\* Exception catches everything else.
InvokeModelRaises(exc) ==
    IF exc.type = "none" THEN NoError
    ELSE IF exc.type = "ClientError"
         THEN [type |-> "BedrockError", code |-> exc.code, message |-> exc.message]
         ELSE [type |-> "BedrockError", code |-> None, message |-> exc.message]

\* invoke_agent, lines 290-301: only ClientError is caught.
InvokeAgentRaises(exc) ==
    IF exc.type = "ClientError"
    THEN [type |-> "BedrockError", code |-> exc.code, message |-> exc.message]
    ELSE exc

\* retrieve_from_knowledge_base, lines 392-403: only ClientError is caught.
RetrieveRaises(exc) ==
    IF exc.type = "ClientError"
    THEN [type |-> "BedrockError", code |-> exc.code, message |-> exc.message]
    ELSE exc

\* A bug: the configuration is not looked at.
AgentConfigured_Unchecked(call) == TRUE

\* invoke_agent, lines 244-248
AgentConfigured(call) == call.configured

\* retrieve_from_knowledge_base, lines 359-363
KnowledgeBaseConfigured(call) == call.configured

\* The operations under the retry decorator (lines 71-76 and 217-222);
\* retrieve_from_knowledge_base (line 342) has none.
Decorated(op) == op \in {"invoke_model", "invoke_agent"}

\* A bug: every exception is retried.
RetryIf_Everything(exc) == exc.type # "none"

\* retry_if_exception_type((ClientError, ConnectionError)), lines 72 and 218
RetryIf(exc) == exc.type \in {"ClientError", "ConnectionError"}

\* stop_after_attempt(3), lines 73 and 219
Stop(attempt) == attempt >= StopAfterAttempt

RECURSIVE Pow2(_)
Pow2(n) == IF n <= 0 THEN 1 ELSE 2 * Pow2(n - 1)

Min(a, b) == IF a <= b THEN a ELSE b
Max(a, b) == IF a >= b THEN a ELSE b

\* wait_exponential(multiplier=1, min=2, max=10), lines 74 and 220: the
\* sleep after attempt number attempt failed.
WaitExponential(attempt) ==
    Max(Max(0, WaitMin), Min(WaitMultiplier * Pow2(attempt - 1), WaitMax))

\* op: "invoke_model" or "invoke_agent"; script[k]: what the endpoint does on
\* its k-th call; attempt: the attempt number of the retry decorator;
\* body_runs, endpoint_calls: how often the function body ran and the
\* endpoint was called; waits: the sleeps between attempts; result: what the
\* caller got.
NoInvocation ==
    [pc |-> "idle", op |-> None, configured |-> TRUE,
     script |-> [k \in 1..StopAfterAttempt |-> "ok"],
     attempt |-> 0, body_runs |-> 0, endpoint_calls |-> 0, waits |-> <<>>,
     result |-> NoError]

\* One run of the function body of call: the endpoint calls it makes and
\* the exception that leaves it.
RunBody(call) ==
    IF \/ call.op = "invoke_agent" /\ ~AgentConfigured(call)
       \/ call.op = "retrieve_from_knowledge_base" /\ ~KnowledgeBaseConfigured(call)
    THEN [calls |-> 0,
          exc |-> [type |-> "BedrockError", code |-> None,
                   message |-> "must be configured"]]
    ELSE LET raised == EndpointRaises(call.script[call.endpoint_calls + 1]) IN
         [calls |-> 1,
          exc |-> CASE call.op = "invoke_model" -> InvokeModelRaises(raised)
                    [] call.op = "invoke_agent" -> InvokeAgentRaises(raised)
                    [] OTHER -> RetrieveRaises(raised)]

\* A caller calls invoke_model, invoke_agent or retrieve_from_knowledge_base.
InvokeStart(op) ==
    /\ inv.pc = "idle"
    /\ \E script \in [1..StopAfterAttempt -> Outcomes],
          configured \in (IF op = "invoke_model" THEN {TRUE} ELSE BOOLEAN) :
        inv' = [NoInvocation EXCEPT !.pc = "body", !.op = op, !.script = script,
                                    !.configured = configured, !.attempt = 1]
    /\ UNCHANGED <<policy, ctx, task, now, ncalls, sessions, stream, wire>>

\* The retry decorator runs the function body once and decides: return,
\* re-raise, or sleep and try again (reraise=True re-raises the exception
\* of the last attempt).
InvokeAttempt ==
    /\ inv.pc = "body"
    /\ LET run == RunBody(inv)
           ran == [inv EXCEPT !.body_runs = @ + 1,
                              !.endpoint_calls = @ + run.calls] IN
       inv' = IF run.exc.type = "none"
              THEN [ran EXCEPT !.pc = "done",
                        !.result = [type |-> "ok", code |-> None, message |-> None]]
              ELSE IF Decorated(inv.op) /\ RetryIf(run.exc) /\ ~Stop(inv.attempt)
              THEN [ran EXCEPT !.pc = "wait",
                               !.waits = Append(@, WaitExponential(inv.attempt))]
              ELSE [ran EXCEPT !.pc = "done", !.result = run.exc]
    /\ UNCHANGED <<policy, ctx, task, now, ncalls, sessions, stream, wire>>

\* The sleep between two attempts is over.
InvokeRetry ==
    /\ inv.pc = "wait"
    /\ inv' = [inv EXCEPT !.pc = "body", !.attempt = @ + 1]
    /\ UNCHANGED <<policy, ctx, task, now, ncalls, sessions, stream, wire>>

\* ----------------------------------------------------- invoke_model_stream
\* What arrives on the response stream, event by event: a chunk with text, a
\* chunk without (no delta, or empty text: lines 205-210 skip it), or a
\* failure of the stream. The fragment of the k-th event is named k.
StreamEvents == {"text", "empty", "error"}

RECURSIVE NextStop(_, _)
\* lines 204-211: the first event after position p that is not skipped
NextStop(events, p) ==
    IF p + 1 > Len(events) THEN Len(events) + 1
    ELSE IF events[p + 1] = "empty" THEN NextStop(events, p + 1)
    ELSE p + 1

\* A bug: the call is started again after a failure.
StreamOnError_Restarts(st) == [st EXCEPT !.pos = 0, !.endpoint_calls = @ + 1]

\* invoke_model_stream, lines 213-215: BedrockError to the consumer
StreamOnError(st) == [st EXCEPT !.pc = "done", !.errors = @ + 1]

\* The consumer asks for the first fragment: the generator body starts and
\* calls the endpoint (lines 177-199), which answers with a stream or raises.
StreamStart ==
    /\ stream.pc = "idle"
    /\ \E n \in 0..MaxEvents, raises \in BOOLEAN :
        \E events \in [1..n -> StreamEvents] :
            LET st == [stream EXCEPT !.events = events, !.endpoint_calls = @ + 1] IN
            stream' = IF raises THEN StreamOnError(st) ELSE [st EXCEPT !.pc = "open"]
    /\ UNCHANGED <<policy, ctx, task, now, ncalls, inv, sessions, wire>>

\* The generator runs to its next yield, to the failure of the stream, or
\* to the end of the stream (lines 202-211).
StreamNext ==
    /\ stream.pc = "open"
    /\ LET k == NextStop(stream.events, stream.pos) IN
       stream' = IF k > Len(stream.events)
                 THEN [stream EXCEPT !.pc = "done", !.pos = Len(stream.events)]
                 ELSE IF stream.events[k] = "text"
                 THEN [stream EXCEPT !.pos = k, !.emitted = Append(@, k)]
                 ELSE StreamOnError([stream EXCEPT !.pos = k])
    /\ UNCHANGED <<policy, ctx, task, now, ncalls, inv, sessions, wire>>

\* LearningAgent has no _active_contexts until the first ask_question returns
NoSessions == [k \in {} |-> None]

\* No invoke_model_stream call has been made.
NoStream ==
    [pc |-> "idle", events |-> <<>>, pos |-> 0, endpoint_calls |-> 0,
     emitted |-> <<>>, errors |-> 0]

\* No context has been serialized.
NoWire == [pc |-> "idle"]

InitWith(policies) ==
    /\ policy \in policies
    /\ inv = NoInvocation
    /\ \E maxit \in 0..MaxIter : ctx = [c \in CtxIds |-> NewContext(c, maxit)]
    /\ task = [t \in TaskIds |-> IdleTask]
    /\ now = 0
    /\ ncalls = 0
    /\ sessions = NoSessions
    /\ stream = NoStream
    /\ wire = NoWire

\* One caller at a time works on one context.
Next ==
    \/ \E t \in {"t1"}, c \in {"c1"} : Execute(t, c)
    \/ \E t \in {"t1"}, c \in {"c1"} : ResumeAccepted(t, c)
    \/ \E t \in {"t1"}, c \in {"c1"} : ResumeRejected(t, c)
    \/ \E c \in {"c1"} : Pause(c)
    \/ \E t \in {"t1"} : LoopStop(t)
    \/ \E t \in {"t1"} : LoopBudget(t)
    \/ \E t \in {"t1"} : StepStart(t)
    \/ \E t \in {"t1"} : StepFinish(t)
    \/ \E t \in {"t1"} : StepRaise(t)
    \/ \E t \in {"t1"} : DeadlineTimeout(t)
    \/ Tick

\* The engine under an abstract step policy.
Init == InitWith({"always", "any"})

Spec == Init /\ [][Next]_vars

\* The engine under the LearningAgent policy.
InitLearning == InitWith({"learning"})

SpecLearning == InitLearning /\ [][Next]_vars

\* The engine under every policy.
InitAll == InitWith(Policies)

SpecAll == InitAll /\ [][Next]_vars

\* LearningAgent.ask_question (which calls execute), pause and resume, one
\* caller at a time.
NextAsk ==
    \/ \E t \in {"t1"} : AskQuestion(t)
    \/ \E t \in {"t1"}, c \in {"c1"} : ResumeAccepted(t, c)
    \/ \E c \in {"c1"} : Pause(c)
    \/ \E t \in {"t1"} : LoopStop(t)
    \/ \E t \in {"t1"} : StepStart(t)
    \/ \E t \in {"t1"} : StepFinish(t)
    \/ \E t \in {"t1"} : StepRaise(t)

SpecAsk == InitLearning /\ [][NextAsk]_vars

\* execute called on a context by a caller that does not look whether a
\* call is running on it (execute itself tests nothing, lines 152-161); the
\* new call can only begin while the running one is suspended.
ExecuteShared(t, c) ==
    \E initial_input \in InputsOf(policy) :
        /\ AtSuspension(c)
        /\ Begin(t, c, "execute", "direct", None, initial_input, 0)

\* Two callers hand one context to the engine, with no rule between them.
NextShared ==
    \/ \E t \in TaskIds, c \in {"c1"} : ExecuteShared(t, c)
    \/ \E t \in TaskIds : LoopStop(t)
    \/ \E t \in TaskIds : LoopBudget(t)
    \/ \E t \in TaskIds : StepStart(t)
    \/ \E t \in TaskIds : StepFinish(t)
    \/ \E t \in TaskIds : StepRaise(t)

SpecShared == Init /\ [][NextShared]_vars

\* Requests handled concurrently by one LearningAgent (routes.py, lines
\* 31-32 and 55-78): each is a coroutine in ask_question.
NextSessions ==
    \/ \E t \in TaskIds : AskQuestion(t)
    \/ \E t \in TaskIds : LoopStop(t)
    \/ \E t \in TaskIds : StepStart(t)
    \/ \E t \in TaskIds : StepFinish(t)
    \/ \E t \in TaskIds : StepRaise(t)

SpecSessions == InitLearning /\ [][NextSessions]_vars

\* The invocation client alone.
NextInvoke ==
    \/ \E op \in {"invoke_model", "invoke_agent", "retrieve_from_knowledge_base"} :
            InvokeStart(op)
    \/ InvokeAttempt
    \/ InvokeRetry

InitInvoke ==
    /\ policy = "learning"
    /\ ctx = [c \in CtxIds |-> NewContext(c, 0)]
    /\ task = [t \in TaskIds |-> IdleTask]
    /\ now = 0
    /\ ncalls = 0
    /\ inv = NoInvocation
    /\ sessions = NoSessions
    /\ stream = NoStream
    /\ wire = NoWire

SpecInvoke == InitInvoke /\ [][NextInvoke]_vars

\* One call of invoke_model_stream and its consumer.
NextStream ==
    \/ StreamStart
    \/ StreamNext

SpecStream == InitInvoke /\ [][NextStream]_vars

\* --------------------------------------------------------- transport shape
\* StrandState, lines 18-26: the members and their values. The engine above
\* writes a state by its value; here the member and its value are kept apart.
StrandStateValue ==
    [IDLE |-> "idle", RUNNING |-> "running", PAUSED |-> "paused",
     COMPLETED |-> "completed", FAILED |-> "failed", TIMEOUT |-> "timeout"]

\* datetime values: seconds and microseconds; sec = Unset stands for None
Timestamps == {[sec |-> 0, micro |-> 0], [sec |-> 0, micro |-> 1], [sec |-> 1, micro |-> 0]}
NoTimestamp == [sec |-> Unset, micro |-> 0]

\* A bug: the microseconds are left out.
isoformat_Seconds(ts) == "1970-01-01T00:00:0" \o ToString(ts.sec)

\* datetime.isoformat (lines 43, 81, 82): the fraction is written when the
\* microseconds are not zero
isoformat(ts) ==
    "1970-01-01T00:00:0" \o ToString(ts.sec) \o
        (IF ts.micro = 0 THEN "" ELSE ".00000" \o ToString(ts.micro))

\* metadata: a dict
NoMetadata == [k \in {} |-> None]

\* StrandMessage, lines 30-36, with its timestamp and its metadata: what the
\* user wrote, and answers of the model, which process_step marks with the
\* iteration (learning_agent.py 125-129)
StrandMessages ==
    [role : {"user"}, content : {"explain recursion"},
     timestamp : Timestamps, metadata : {NoMetadata}]
    \cup
    [role : {"assistant"}, content : {"here is how", "you've mastered it"},
     timestamp : Timestamps, metadata : {[k \in {"iteration"} |-> 1]}]

\* StrandMessage.to_dict, lines 38-45
message_to_dict(m) ==
    [role |-> m.role, content |-> m.content,
     timestamp |-> isoformat(m.timestamp), metadata |-> m.metadata]

\* StrandContext.to_dict, lines 72-85
to_dict(cx) ==
    [strand_id |-> cx.strand_id,
     session_id |-> cx.session_id,
     state |-> StrandStateValue[cx.state],
     messages |-> [i \in 1..Len(cx.messages) |-> message_to_dict(cx.messages[i])],
     variables |-> cx.variables,
     iteration |-> cx.iteration,
     max_iterations |-> cx.max_iterations,
     start_time |-> IF cx.start_time # NoTimestamp THEN isoformat(cx.start_time) ELSE None,
     end_time |-> IF cx.end_time # NoTimestamp THEN isoformat(cx.end_time) ELSE None,
     error |-> cx.error]

\* The contexts the functions are applied to: every state, histories of up
\* to two messages, the three shapes of variables that should_continue
\* tells apart, every iteration and budget up to MaxIter.
Histories ==
    {<<>>} \cup {<<m>> : m \in StrandMessages}
           \cup {<<m1, m2>> : m1 \in StrandMessages, m2 \in StrandMessages}

VariablesDrawn ==
    {NoVariables, SetVar(NoVariables, "learning_complete", TRUE),
     SetVar(NoVariables, "learning_complete", FALSE)}

ContextsDrawn ==
    {[NewContext("c1", maxit) EXCEPT
        !.state = state, !.messages = messages, !.variables = variables,
        !.iteration = iteration,
        !.start_time = IF state = "IDLE" THEN NoTimestamp
                       ELSE [sec |-> 0, micro |-> 1],
        !.end_time = IF state \in {"COMPLETED", "FAILED", "TIMEOUT"}
                     THEN [sec |-> 1, micro |-> 0] ELSE NoTimestamp,
        !.error = IF state \in {"FAILED", "TIMEOUT"} THEN "step failed" ELSE None] :
        state \in DOMAIN StrandStateValue, messages \in Histories,
        variables \in VariablesDrawn, iteration \in 0..MaxIter, maxit \in 0..MaxIter}

\* context.to_dict() on the context drawn
ToDict ==
    /\ wire.pc = "drawn"
    /\ wire' = [wire EXCEPT !.pc = "serialized", !.dict = to_dict(wire.context)]
    /\ UNCHANGED <<policy, ctx, task, now, ncalls, inv, sessions, stream>>

\* LearningAgent.should_continue(context) on the context drawn
ShouldContinue ==
    /\ wire.pc = "drawn"
    /\ wire' = [wire EXCEPT !.pc = "asked",
                            !.returned = LearningShouldContinue(wire.context),
                            !.context = LearningShouldContinueEffect(wire.context)]
    /\ UNCHANGED <<policy, ctx, task, now, ncalls, inv, sessions, stream>>

NextContext ==
    \/ ToDict
    \/ ShouldContinue

InitContext ==
    /\ policy = "learning"
    /\ ctx = [c \in CtxIds |-> NewContext(c, 0)]
    /\ task = [t \in TaskIds |-> IdleTask]
    /\ now = 0
    /\ ncalls = 0
    /\ inv = NoInvocation
    /\ sessions = NoSessions
    /\ stream = NoStream
    /\ \E cx \in ContextsDrawn :
          wire = [pc |-> "drawn", given |-> cx, context |-> cx,
                  dict |-> None, returned |-> None]

SpecContext == InitContext /\ [][NextContext]_vars

\* ================================================================= claims
Active(t) == task[t].pc # "none"
Ended(t) == task[t].pc = "done"
CtxOf(t) == ctx[task[t].ctx]

\* A step of the model in which task t begins an engine call.
Begins(t) == ncalls' = ncalls + 1 /\ task'[t] # task[t]

\* C1: under a policy whose should_continue always returns true, an execute
\* on a context that starts at iteration 0 never calls process_step more than
\* max_iterations times, never returns normally, and, when neither a step
\* nor the deadline ends it first, ends with the budget-exceeded execution
\* error after exactly max_iterations calls, the context FAILED.
C1_BudgetBoundsSteps ==
    \A t \in TaskIds :
        (Active(t) /\ policy = "always" /\ task[t].op = "execute"
            /\ task[t].entry_iteration = 0) =>
            /\ task[t].calls <= CtxOf(t).max_iterations
            /\ task[t].outcome # "returned"
            /\ (Ended(t) /\ task[t].cause \notin {"step", "step_timeout", "deadline"}) =>
                /\ task[t].cause = "budget"
                /\ task[t].outcome = "AgentExecutionError"
                /\ task[t].calls = CtxOf(t).max_iterations
                /\ task[t].completed = CtxOf(t).max_iterations
                /\ task[t].ended.state = "failed"
                /\ task[t].ended.error = "Maximum iterations exceeded"

C1_Witness ==
    /\ policy = "always"
    /\ Ended("t1") /\ task["t1"].op = "execute" /\ task["t1"].entry_iteration = 0
    /\ task["t1"].cause = "budget"
    /\ task["t1"].calls = 2
    /\ ctx["c1"].max_iterations = 2
    /\ ctx["c1"].state = "failed"

\* C2: when the deadline passes while a step is in flight, the call ends with
\* AgentTimeoutError, the context is TIMEOUT with end_time and error set,
\* what the step had written when it suspended is still there, the step
\* in flight is the last process_step call of the call and it is not counted.
C2_DeadlineInFlight ==
    \A t \in TaskIds :
        (Ended(t) /\ task[t].cause = "deadline") =>
            /\ task[t].outcome = "AgentTimeoutError"
            /\ task[t].ended.state = "timeout"
            /\ task[t].ended.end_time # Unset
            /\ task[t].ended.error = "Execution timed out"
            /\ Written(task[t].ended) = task[t].suspended
            /\ Written(CtxOf(t)) = task[t].suspended
            /\ task[t].calls = task[t].completed + 1
            /\ CtxOf(t).iteration = task[t].entry_iteration + task[t].completed

C2_Witness ==
    /\ Ended("t1") /\ task["t1"].cause = "deadline"
    /\ ctx["c1"].state = "timeout"
    /\ task["t1"].completed = 1
    /\ Len(ctx["c1"].messages) = 3
    /\ Last(ctx["c1"].messages).content = "partial"

\* C3 (as claimed): a call of invoke_model or invoke_agent (configured)
\* whose endpoint fails with a transient failure on its first two calls and
\* answers the third ends with the answer, the endpoint called exactly 3 times.
C3_TwoTransientThenSuccess ==
    (/\ inv.pc = "done"
     /\ Decorated(inv.op)
     /\ inv.configured
     /\ inv.script[1] \in Transient
     /\ inv.script[2] \in Transient
     /\ inv.script[3] = "ok") =>
        /\ inv.result.type = "ok"
        /\ inv.endpoint_calls = 3

\* C4: when execute ends by raising, the context is FAILED or TIMEOUT, has
\* end_time and an error text, and the error raised is AgentExecutionError
\* (with FAILED) or AgentTimeoutError (with TIMEOUT).
C4_FailureIsRecorded ==
    \A t \in TaskIds :
        (Ended(t) /\ task[t].outcome # "returned" /\ task[t].cause # "not_paused") =>
            /\ task[t].ended.state \in {"failed", "timeout"}
            /\ task[t].ended.end_time # Unset
            /\ task[t].ended.end_time >= task[t].ended.start_time
            /\ task[t].ended.error # None
            /\ task[t].outcome \in {"AgentExecutionError", "AgentTimeoutError"}
            /\ (task[t].outcome = "AgentTimeoutError") <=> (task[t].ended.state = "timeout")

C4_Witness ==
    /\ Ended("t1") /\ task["t1"].cause = "step"
    /\ task["t1"].outcome = "AgentExecutionError"
    /\ ctx["c1"].state = "failed"
    /\ ctx["c1"].error # None
    /\ task["t1"].completed = 1

\* C5 (as claimed): a context in COMPLETED, FAILED or TIMEOUT keeps its state
\* in every step, and RUNNING is entered only from IDLE or from PAUSED.
C5_TerminalAbsorbing ==
    [][\A c \in CtxIds :
        /\ ctx[c].state \in Terminal => ctx'[c].state = ctx[c].state
        /\ (ctx[c].state # "running" /\ ctx'[c].state = "running") =>
              ctx[c].state \in {"idle", "paused"}]_vars

\* C6: a resume on a context that is not PAUSED ends at once with
\* AgentExecutionError naming the state, calls neither should_continue nor
\* process_step, and changes no field of any context.
C6_ResumeRejected ==
    [][\A t \in TaskIds :
        (Begins(t) /\ task'[t].op = "resume"
            /\ ctx[task'[t].ctx].state # "paused") =>
            /\ task'[t].pc = "done"
            /\ task'[t].outcome = "AgentExecutionError"
            /\ task'[t].detail_state = ctx[task'[t].ctx].state
            /\ task'[t].calls = 0
            /\ task'[t].checks = 0
            /\ ctx' = ctx]_vars

C6_Witness ==
    /\ Ended("t1") /\ task["t1"].op = "resume"
    /\ task["t1"].cause = "not_paused"
    /\ task["t1"].detail_state = "completed"
    /\ ctx["c1"].state = "completed"
    /\ ctx["c1"].iteration = 1

\* A step of the model in which resume is accepted on context c.
Resumes(t, c) ==
    Begins(t) /\ task'[t].op = "resume" /\ task'[t].ctx = c /\ task'[t].pc = "check"

\* C7 (as claimed): pause changes the state alone, and when the resumed loop
\* is about to make its first should_continue check the context differs
\* from the paused one in its state alone.
C7_OnlyStateDiffers ==
    [][\A c \in CtxIds :
        /\ (ctx'[c].state = "paused" /\ ctx[c].state # "paused") =>
              ctx'[c] = [ctx[c] EXCEPT !.state = "paused"]
        /\ \A t \in TaskIds : Resumes(t, c) =>
              ctx'[c] = [ctx[c] EXCEPT !.state = "running"]]_vars

\* C7 (amended): pause changes the state alone; when the resumed loop is
\* about to make its first should_continue check, variables, iteration and
\* every other field are those of the paused context, except that the state
\* is RUNNING, start_time is the time of the resume, and a history that was
\* empty holds one user message with the empty text (a history that was not
\* empty is unchanged).
C7_ResumePreserves ==
    [][\A c \in CtxIds :
        /\ (ctx'[c].state = "paused" /\ ctx[c].state # "paused") =>
              ctx'[c] = [ctx[c] EXCEPT !.state = "paused"]
        /\ \A t \in TaskIds : Resumes(t, c) =>
              /\ ctx[c].state = "paused"
              /\ task'[t].checks = 0 /\ task'[t].calls = 0
              /\ ctx'[c] = [ctx[c] EXCEPT
                    !.state = "running",
                    !.start_time = now,
                    !.messages = IF @ = <<>>
                                 THEN <<[role |-> "user", content |-> "",
                                         iteration |-> Unset]>>
                                 ELSE @]]_vars

C7_Witness ==
    /\ task["t1"].pc = "check" /\ task["t1"].op = "resume"
    /\ task["t1"].checks = 0
    /\ ctx["c1"].state = "running"
    /\ ctx["c1"].iteration = 1
    /\ Len(ctx["c1"].messages) = 2
    /\ ctx["c1"].end_time # Unset

\* C8: an execute whose first should_continue check returns false calls
\* process_step zero times and ends COMPLETED with the iteration it began with.
C8_StopAtFirstCheck ==
    \A t \in TaskIds :
        (Ended(t) /\ task[t].checks = 1 /\ task[t].cause = "completed") =>
            /\ task[t].calls = 0
            /\ task[t].outcome = "returned"
            /\ task[t].ended.state = "completed"
            /\ task[t].ended.iteration = task[t].entry_iteration
            /\ CtxOf(t).iteration = task[t].entry_iteration

C8_Witness ==
    /\ Ended("t1") /\ task["t1"].checks = 1 /\ task["t1"].cause = "completed"
    /\ task["t1"].calls = 0
    /\ task["t1"].entry_iteration = 1
    /\ ctx["c1"].state = "completed"

\* C9: during an engine call the iteration is the iteration at entry plus
\* the process_step calls that returned; no step of the model lowers a
\* context's iteration or shortens its messages.
C9_IterationCountsSteps ==
    /\ [](\A t \in TaskIds : Active(t) =>
            CtxOf(t).iteration = task[t].entry_iteration + task[t].completed)
    /\ [][\A c \in CtxIds :
            /\ ctx'[c].iteration >= ctx[c].iteration
            /\ Len(ctx'[c].messages) >= Len(ctx[c].messages)]_vars

C9_Witness ==
    /\ task["t1"].pc = "check"
    /\ task["t1"].completed = 2
    /\ ctx["c1"].iteration = 2
    /\ Len(ctx["c1"].messages) >= 3

\* C10: with one engine call at a time, a RUNNING context has
\* iteration <= max_iterations, and a process_step call in flight was entered
\* with iteration < max_iterations.
C10_IterationWithinBudget ==
    /\ \A c \in CtxIds :
          ctx[c].state = "running" => ctx[c].iteration <= ctx[c].max_iterations
    /\ \A t \in TaskIds :
          task[t].pc = "await" =>
              /\ CtxOf(t).iteration < CtxOf(t).max_iterations
              /\ task[t].suspended.iteration < CtxOf(t).max_iterations

C10_Witness ==
    /\ task["t1"].pc = "await"
    /\ ctx["c1"].state = "running"
    /\ ctx["c1"].max_iterations = 2
    /\ ctx["c1"].iteration = 1
\* The last endpoint call a finished invocation made failed with outcome o.
LastFailure == inv.script[inv.endpoint_calls]

\* C12 (as claimed): a call of invoke_model or invoke_agent (configured)
\* whose endpoint fails with a transient failure on every call ends after
\* exactly 3 endpoint calls with BedrockError carrying the code (for a
\* ClientError) and the message of the last failure.
C12_ExhaustedIsNormalized ==
    (/\ inv.pc = "done"
     /\ Decorated(inv.op)
     /\ inv.configured
     /\ \A k \in 1..StopAfterAttempt : inv.script[k] \in Transient) =>
        /\ inv.endpoint_calls = StopAfterAttempt
        /\ inv.result.type = "BedrockError"
        /\ inv.result.message = inv.script[StopAfterAttempt]
        /\ inv.script[StopAfterAttempt] # "ConnectionError" =>
              inv.result.code = inv.script[StopAfterAttempt]

\* C13: a call of invoke_model or invoke_agent (configured) whose first
\* endpoint call fails with a non-transient failure (a ClientError that is
\* not throttling, or a local ValueError) runs its body once, calls the
\* endpoint once, sleeps never, and ends with an error that carries the
\* code (for a ClientError) and the message of that failure; on whichever
\* attempt a non-transient failure comes, it is the last and is the error
\* the caller gets.
C13_NonTransientNotRetried ==
    /\ (/\ inv.pc \in {"wait", "done"}
        /\ Decorated(inv.op)
        /\ inv.configured
        /\ inv.script[1] \notin Transient \cup {"ok"}) =>
            /\ inv.pc = "done"
            /\ inv.body_runs = 1
            /\ inv.endpoint_calls = 1
            /\ inv.waits = <<>>
            /\ inv.result.type \notin {"ok", "none"}
            /\ inv.result.message = inv.script[1]
            /\ inv.script[1] # "ValueError" => inv.result.code = inv.script[1]
    /\ (/\ inv.pc \in {"wait", "done"}
        /\ Decorated(inv.op)
        /\ inv.endpoint_calls > 0
        /\ LastFailure \notin Transient \cup {"ok"}) =>
            /\ inv.pc = "done"
            /\ Len(inv.waits) = inv.endpoint_calls - 1
            /\ inv.result.message = LastFailure

C13_Witness ==
    /\ inv.pc = "done"
    /\ inv.op = "invoke_agent"
    /\ inv.script[1] = "ValidationException"
    /\ inv.endpoint_calls = 1
    /\ inv.result.type = "BedrockError"
    /\ inv.result.code = "ValidationException"

\* C14 (as claimed): the sleeps between the attempts of one call are each
\* between the minimum (2) and the maximum (10), and each is longer than
\* the one before.
C14_DelaysIncrease ==
    \A k \in 1..Len(inv.waits) :
        /\ inv.waits[k] >= WaitMin
        /\ inv.waits[k] <= WaitMax
        /\ k > 1 => inv.waits[k] > inv.waits[k - 1]
\* The policy told the engine call of task t that the work is complete: the
\* LearningAgent policy by learning_complete, an abstract policy by
\* returning false from should_continue.
SignalledCompletion(t) ==
    IF policy = "learning"
    THEN /\ Has(task[t].ended.variables, "learning_complete")
         /\ task[t].ended.variables["learning_complete"]
    ELSE task[t].cause = "completed"

\* C11 (as claimed): an engine call that, after at least one step, stops at
\* the loop test with the iteration at max_iterations, the policy not having
\* signalled completion, ends with AgentExecutionError and the context
\* FAILED, never COMPLETED.
C11_BudgetStopIsFailure ==
    \A t \in TaskIds :
        (/\ Ended(t)
         /\ task[t].completed > 0
         /\ task[t].cause \in {"completed", "budget"}
         /\ task[t].ended.iteration >= task[t].ended.max_iterations
         /\ ~SignalledCompletion(t)) =>
            /\ task[t].ended.state = "failed"
            /\ task[t].outcome = "AgentExecutionError"
\* The engine call of task t is in its loop.
InLoop(t) == task[t].pc \in {"check", "await"}

\* C15: an engine call has one deadline, start_time + timeout, fixed when the
\* call begins and the same at every iteration; while the call is in its
\* loop no more than the timeout has passed since it began, and it ends no
\* later than its deadline, whatever the number of steps; a call the
\* deadline ends has lasted exactly the timeout.
C15_OneDeadlinePerCall ==
    /\ [](\A t \in TaskIds :
            /\ InLoop(t) =>
                /\ task[t].deadline = CtxOf(t).start_time + task[t].timeout_seconds
                /\ now - CtxOf(t).start_time <= task[t].timeout_seconds
            /\ (Ended(t) /\ task[t].cause # "not_paused") =>
                task[t].ended.end_time - task[t].ended.start_time
                    <= task[t].timeout_seconds
            /\ (Ended(t) /\ task[t].cause = "deadline") =>
                /\ task[t].ended.state = "timeout"
                /\ task[t].ended.end_time - task[t].ended.start_time
                    = task[t].timeout_seconds)
    /\ [][\A t \in TaskIds :
            (InLoop(t) /\ InLoop(t)') => task'[t].deadline = task[t].deadline]_vars

\* Two steps, each shorter than the timeout of 2, the second cut by the deadline.
C15_Witness ==
    /\ Ended("t1") /\ task["t1"].cause = "deadline"
    /\ task["t1"].timeout_seconds = 2
    /\ task["t1"].completed = 1
    /\ task["t1"].step_start - task["t1"].ended.start_time = 1
    /\ task["t1"].ended.end_time - task["t1"].step_start = 1
    /\ ctx["c1"].state = "timeout"
\* C16 (as claimed): when a process_step call raises, the engine call ends
\* there (the failed step is its last process_step call), the iteration does
\* not count the failed step, and the context is FAILED, the caller getting
\* AgentExecutionError.
C16_StepFailureFailsRun ==
    \A t \in TaskIds :
        (Ended(t) /\ task[t].cause \in {"step", "step_timeout"}) =>
            /\ task[t].calls = task[t].completed + 1
            /\ task[t].ended.iteration = task[t].entry_iteration + task[t].completed
            /\ CtxOf(t).iteration = task[t].ended.iteration
            /\ task[t].ended.state = "failed"
            /\ task[t].outcome = "AgentExecutionError"
\* C17: pause, in whatever state the context is and whether or not an
\* engine call is running on it, sets the state to PAUSED and changes
\* nothing else of that context, and nothing of any other (pause is the
\* one operation that writes a context without starting, advancing or
\* ending an engine call).
C17_PauseChangesStateOnly ==
    [][(task' = task /\ ctx' # ctx) =>
        \E c \in CtxIds :
            /\ ctx'[c].state = "paused"
            /\ ctx'[c] = [ctx[c] EXCEPT !.state = "paused"]
            /\ \A d \in CtxIds \ {c} : ctx'[d] = ctx[d]]_vars

\* A context paused after a run that failed at its second step.
C17_Witness ==
    /\ ctx["c1"].state = "paused"
    /\ Ended("t1") /\ task["t1"].ended.state = "failed"
    /\ ctx["c1"] = [task["t1"].ended EXCEPT !.state = "paused"]
    /\ ctx["c1"].iteration = 1
    /\ ctx["c1"].error # None
    /\ ctx["c1"].end_time # Unset
\* C18: when execute (called directly or by resume) reaches its loop, a
\* history that was empty at entry holds exactly one message, the user
\* message with initial_input, and a history that was not empty is as it
\* was at entry; no should_continue check has been made by then.
C18_InputAppendedIffEmpty ==
    [][\A t \in TaskIds :
        (Begins(t) /\ task'[t].pc = "check") =>
            LET c == task'[t].ctx IN
            /\ task'[t].checks = 0
            /\ IF ctx[c].messages = <<>>
               THEN ctx'[c].messages =
                        <<[role |-> "user", content |-> task'[t].initial_input,
                           iteration |-> Unset]>>
               ELSE ctx'[c].messages = ctx[c].messages]_vars

\* A second execute on a context with a history, about to make its first check.
C18_Witness ==
    /\ task["t1"].pc = "check" /\ task["t1"].op = "execute"
    /\ task["t1"].checks = 0
    /\ task["t1"].initial_input = "explain recursion"
    /\ ncalls = 2
    /\ Len(ctx["c1"].messages) = 2
    /\ Last(ctx["c1"].messages).role = "assistant"
\* C19 (as claimed): on every context the engine can hand to it,
\* LearningAgent.should_continue leaves the context as it is (messages,
\* variables, iteration, state), and a second call on the context returns
\* what the first returned.
C19_ShouldContinuePure ==
    policy = "learning" =>
        \A c \in CtxIds :
            /\ LearningShouldContinueEffect(ctx[c]) = ctx[c]
            /\ LearningShouldContinue(LearningShouldContinueEffect(ctx[c]))
                   = LearningShouldContinue(ctx[c])
\* C20: every step leaves the messages a context had as a prefix of those
\* it has; a LearningAgent.process_step call that returns has appended
\* exactly one message, an assistant message at the end whose metadata
\* iteration is the iteration counter of that step; so under the
\* LearningAgent policy the k-th assistant message of a context carries
\* iteration k - 1.
C20_MessagesAppendOnly ==
    /\ [][\A c \in CtxIds :
            /\ Len(ctx'[c].messages) >= Len(ctx[c].messages)
            /\ SubSeq(ctx'[c].messages, 1, Len(ctx[c].messages)) = ctx[c].messages]_vars
    /\ [][\A t \in TaskIds :
            (policy = "learning" /\ task'[t].completed = task[t].completed + 1) =>
                LET c == task[t].ctx IN
                /\ Len(ctx'[c].messages) = Len(ctx[c].messages) + 1
                /\ Last(ctx'[c].messages).role = "assistant"
                /\ Last(ctx'[c].messages).iteration = ctx[c].iteration
                /\ ctx'[c].iteration = ctx[c].iteration + 1]_vars
    /\ [](policy = "learning" =>
            \A c \in CtxIds :
                \A k \in 1..Len(OfRole(ctx[c], "assistant")) :
                    OfRole(ctx[c], "assistant")[k].iteration = k - 1)

\* Two learning steps on a fresh context.
C20_Witness ==
    /\ policy = "learning"
    /\ ctx["c1"].iteration = 2
    /\ Len(ctx["c1"].messages) = 3
    /\ ctx["c1"].messages[1].role = "user"
    /\ ctx["c1"].messages[2].iteration = 0
    /\ ctx["c1"].messages[3].iteration = 1
    /\ ctx["c1"].messages[3].role = "assistant"
\* C21: under the LearningAgent policy, at every suspension point and so
\* wherever an engine call has ended (COMPLETED, FAILED or TIMEOUT, the
\* deadline having cancelled a step in flight or not), a context has as
\* many assistant messages as its iteration counts.
C21_NoUncountedStep ==
    policy = "learning" =>
        /\ \A c \in CtxIds : Len(OfRole(ctx[c], "assistant")) = ctx[c].iteration
        /\ \A t \in TaskIds : Ended(t) =>
              Len(OfRole(task[t].ended, "assistant")) = task[t].ended.iteration

\* The deadline cancels the second learning step after it set nothing but variables.
C21_Witness ==
    /\ policy = "learning"
    /\ Ended("t1") /\ task["t1"].cause = "deadline"
    /\ task["t1"].completed = 1
    /\ ctx["c1"].state = "timeout"
    /\ ctx["c1"].iteration = 1
    /\ Len(OfRole(ctx["c1"], "assistant")) = 1
    /\ Has(ctx["c1"].variables, "learning_goal")

\* C25 (as claimed): the error execute raises because a step failed has the
\* strand id and the iteration reached among its details.
C25_FailureNamesIteration ==
    \A t \in TaskIds :
        (Ended(t) /\ task[t].cause = "step") =>
            /\ task[t].outcome = "AgentExecutionError"
            /\ {"strand_id", "iteration"} \subseteq task[t].details

\* C26 (as claimed): an IDLE context has neither start_time nor end_time, a
\* RUNNING context has start_time and no end_time, a COMPLETED, FAILED or
\* TIMEOUT context has both, end_time not before start_time.
C26_TimestampsMatchState ==
    \A c \in CtxIds :
        /\ ctx[c].state = "idle" =>
              ctx[c].start_time = Unset /\ ctx[c].end_time = Unset
        /\ ctx[c].state = "running" =>
              ctx[c].start_time # Unset /\ ctx[c].end_time = Unset
        /\ ctx[c].state \in Terminal =>
              /\ ctx[c].start_time # Unset /\ ctx[c].end_time # Unset
              /\ ctx[c].end_time >= ctx[c].start_time

\* C30: a context that is IDLE is as it was created (iteration 0, no
\* message, no variable, start_time, end_time and error unset), every
\* context is created IDLE, and no step takes a context that has left IDLE
\* back to it.
C30_IdleOnlyAtCreation ==
    /\ [](\A c \in CtxIds :
            /\ ctx[c].state = "idle" => ctx[c] = NewContext(c, ctx[c].max_iterations)
            /\ (ncalls = 0 /\ ctx[c].state # "paused") => ctx[c].state = "idle")
    /\ [][\A c \in CtxIds :
            ctx'[c].state = "idle" => ctx[c].state = "idle"]_vars

\* A context that has been through PAUSED, RUNNING and COMPLETED.
C30_Witness ==
    /\ Ended("t1") /\ task["t1"].op = "resume"
    /\ task["t1"].cause = "completed"
    /\ ctx["c1"].state = "completed"
    /\ ctx["c1"].iteration = 1
\* The engine calls in their loop on context c.
Owners(c) == {t \in TaskIds : InLoop(t) /\ task[t].ctx = c}

\* C22 (as claimed): whatever the requests to ask_question and however they
\* interleave, at most one engine call is in flight on a context.
C22_OneOwner ==
    \A c \in CtxIds : Cardinality(Owners(c)) <= 1
\* A step of the model in which the engine call of task t returns.
Returns(t) ==
    task[t].pc # "done" /\ task'[t].pc = "done" /\ task'[t].outcome = "returned"

\* The ids of a context are never written.
IdsKept ==
    \A c \in CtxIds :
        /\ ctx'[c].strand_id = ctx[c].strand_id
        /\ ctx'[c].session_id = ctx[c].session_id

\* C28 (as claimed): the response to an ask_question that named a
\* session_id an earlier response gave carries that session_id and the
\* strand_id of the session's context, an iteration greater than 0 and not
\* smaller than that of the session's latest earlier response; no step
\* changes the strand_id or the session_id of a context.
C28_SessionContinuity ==
    [][/\ IdsKept
       /\ \A t \in TaskIds :
            (/\ Returns(t)
             /\ task[t].via = "ask_question"
             /\ task[t].asked \in DOMAIN sessions) =>
                LET r == Response(task'[t].ended)
                    earlier == sessions[task[t].asked] IN
                /\ r.session_id = task[t].asked
                /\ r.strand_id = ctx[earlier.context].strand_id
                /\ r.iteration > 0
                /\ r.iteration >= earlier.answered]_vars

\* C28 (amended): as above, the iteration being greater than 0 when
\* max_iterations is at least 1 (with a budget of 0 no step ever runs and
\* every response carries iteration 0).
C28_SessionContinuityWithBudget ==
    [][/\ IdsKept
       /\ \A t \in TaskIds :
            (/\ Returns(t)
             /\ task[t].via = "ask_question"
             /\ task[t].asked \in DOMAIN sessions) =>
                LET r == Response(task'[t].ended)
                    earlier == sessions[task[t].asked] IN
                /\ r.session_id = task[t].asked
                /\ r.strand_id = ctx[earlier.context].strand_id
                /\ task'[t].ended.max_iterations >= 1 => r.iteration > 0
                /\ r.iteration >= earlier.answered
                /\ sessions'[task[t].asked].context = earlier.context]_vars

\* A second question on the session of a first that was answered.
C28_Witness ==
    /\ Ended("t1") /\ task["t1"].via = "ask_question"
    /\ task["t1"].outcome = "returned"
    /\ task["t1"].asked = "session-c1"
    /\ task["t1"].ctx = "c1"
    /\ Response(task["t1"].ended).session_id = "session-c1"
    /\ Response(task["t1"].ended).iteration = 2
    /\ sessions["session-c1"].answered = 2
Fragments(n) ==
    SelectSeq([k \in 1..n |-> k], LAMBDA k : stream.events[k] = "text")

\* C24: a call of invoke_model_stream calls the endpoint once and never
\* again; what the consumer has got is the fragments of the events read so
\* far, each once and in arrival order; when the stream fails the consumer
\* gets one error after the fragments that arrived before the failure, and
\* the call is over.
C24_StreamNotRestarted ==
    /\ stream.endpoint_calls = (IF stream.pc = "idle" THEN 0 ELSE 1)
    /\ stream.emitted = Fragments(stream.pos)
    /\ \A i, j \in 1..Len(stream.emitted) :
          i < j => stream.emitted[i] < stream.emitted[j]
    /\ stream.errors <= 1
    /\ stream.errors = 1 =>
          /\ stream.pc = "done"
          /\ stream.pos > 0 =>
                /\ stream.events[stream.pos] = "error"
                /\ stream.emitted = Fragments(stream.pos - 1)

\* The stream failed after two fragments.
C24_Witness ==
    /\ stream.pc = "done"
    /\ stream.events = <<"text", "text", "error">>
    /\ stream.emitted = <<1, 2>>
    /\ stream.errors = 1
    /\ stream.endpoint_calls = 1
\* What a reader of the transport shape gets: the member of StrandState
\* with the value written, the datetime the text stands for
\* (datetime.fromisoformat), every other entry as written.
fromisoformat(text) == CHOOSE ts \in Timestamps : isoformat(ts) = text

ReadBack(d) ==
    [strand_id |-> d.strand_id,
     session_id |-> d.session_id,
     state |-> CHOOSE member \in DOMAIN StrandStateValue :
                   StrandStateValue[member] = d.state,
     messages |-> [i \in 1..Len(d.messages) |->
                     [role |-> d.messages[i].role,
                      content |-> d.messages[i].content,
                      timestamp |-> fromisoformat(d.messages[i].timestamp),
                      metadata |-> d.messages[i].metadata]],
     variables |-> d.variables,
     iteration |-> d.iteration,
     max_iterations |-> d.max_iterations]

\* C27: what is read back from to_dict of a context has the strand id, the
\* session id, the state, the iteration, the budget and the variables of
\* the context, and as many messages, in the same order, each with the
\* role, content, timestamp and metadata of the message at its place.
C27_RoundTrip ==
    wire.pc = "serialized" =>
        LET cx == wire.given
            back == ReadBack(wire.dict) IN
        /\ back.strand_id = cx.strand_id
        /\ back.session_id = cx.session_id
        /\ back.state = cx.state
        /\ back.iteration = cx.iteration
        /\ back.max_iterations = cx.max_iterations
        /\ back.variables = cx.variables
        /\ Len(back.messages) = Len(cx.messages)
        /\ \A i \in 1..Len(cx.messages) :
              /\ back.messages[i].role = cx.messages[i].role
              /\ back.messages[i].content = cx.messages[i].content
              /\ back.messages[i].timestamp = cx.messages[i].timestamp
              /\ back.messages[i].metadata = cx.messages[i].metadata

\* A failed context with two messages, one stamped with microseconds, and
\* a variable has been serialized.
C27_Witness ==
    /\ wire.pc = "serialized"
    /\ wire.given.state = "FAILED"
    /\ wire.dict.state = "failed"
    /\ Len(wire.dict.messages) = 2
    /\ wire.given.messages[1].timestamp.micro = 1
    /\ wire.given.messages[2].metadata # NoMetadata
    /\ wire.given.variables # NoVariables
    /\ wire.given.iteration > 0

\* C29: LearningAgent.should_continue returns false on a context whose
\* variables have learning_complete = true, whatever its iteration and
\* messages; on a context with no learning_complete entry and no assistant
\* message it returns iteration < max_iterations.
C29_ShouldContinueValue ==
    wire.pc = "asked" =>
        LET cx == wire.given IN
        /\ (/\ Has(cx.variables, "learning_complete")
            /\ cx.variables["learning_complete"]) => wire.returned = FALSE
        /\ (/\ ~Has(cx.variables, "learning_complete")
            /\ OfRole(cx, "assistant") = <<>>) =>
                wire.returned = (cx.iteration < cx.max_iterations)

\* should_continue said no to a marked context that has budget left.
C29_Witness ==
    /\ wire.pc = "asked"
    /\ Has(wire.given.variables, "learning_complete")
    /\ wire.given.variables["learning_complete"]
    /\ wire.given.iteration < wire.given.max_iterations
    /\ OfRole(wire.given, "assistant") = <<>>
    /\ wire.returned = FALSE
\* C31: once a step of an engine call has been made and the context is
\* PAUSED, that call makes no further process_step call and the context
\* does not become COMPLETED.
C31_NoStepWhilePaused ==
    [][\A t \in TaskIds :
         (/\ task[t].pc \in {"check", "await"}
          /\ task[t].calls > 0
          /\ ctx[task[t].ctx].state = "paused") =>
              /\ task'[t].calls = task[t].calls
              /\ ctx'[task[t].ctx].state # "completed"]_vars
\* C32: an ask_question that names a session an earlier ask_question has
\* stored runs on the stored context, makes no process_step call (so no
\* model invocation), leaves the messages as they were (the question is not
\* appended), returns, and its response has the answer and the iteration of
\* the call that stored the session, whose entry stays as it was.
C32_LaterAskRepeats ==
    [][\A t \in TaskIds :
         (/\ task'[t].pc # "none"
          /\ task'[t].via = "ask_question"
          /\ task'[t].asked \in DOMAIN sessions) =>
              LET c == task'[t].ctx
                  first == sessions[task'[t].asked] IN
              /\ c = first.context
              /\ task'[t].calls = 0
              /\ task'[t].pc # "await"
              /\ ctx'[c].messages = ctx[c].messages
              /\ ctx'[c].iteration = ctx[c].iteration
              /\ sessions'[task'[t].asked] = first
              /\ task'[t].pc = "done" =>
                    /\ task'[t].outcome = "returned"
                    /\ Response(task'[t].ended).answer = first.answer
                    /\ Response(task'[t].ended).iteration = first.answered]_vars

\* A later question, other than the first one, was answered on a session
\* whose first call made a step.
C32_Witness ==
    \E t \in TaskIds :
        /\ task[t].pc = "done"
        /\ task[t].via = "ask_question"
        /\ task[t].asked \in DOMAIN sessions
        /\ task[t].outcome = "returned"
        /\ task[t].ended.iteration > 0
        /\ task[t].ended.messages[1].content # task[t].initial_input
        /\ Response(task[t].ended).answer # ""
\* The ask_question call of task t was on a new session: it named no
\* session, or one that no context has.
NewSession(t) ==
    /\ task[t].via = "ask_question"
    /\ task[t].asked \notin {SessionIdOf(c) : c \in CtxIds}

\* C33: when an ask_question on a new session has returned and no answer
\* of the model had a completion phrase, process_step (one model invocation
\* each) was called max_iterations times and every call returned, the
\* history is the user message followed by max_iterations assistant
\* messages, the state is COMPLETED, iteration = max_iterations and the
\* response says complete = false.
C33_RunsWholeBudget ==
    \A t \in TaskIds :
        (/\ task[t].pc = "done"
         /\ NewSession(t)
         /\ task[t].outcome = "returned"
         /\ \A i \in 1..Len(task[t].ended.messages) :
               ~HasCompletionPhrase(task[t].ended.messages[i].content)) =>
            LET cx == task[t].ended IN
            /\ task[t].calls = cx.max_iterations
            /\ task[t].completed = cx.max_iterations
            /\ Len(cx.messages) = cx.max_iterations + 1
            /\ cx.messages[1].role = "user"
            /\ cx.messages[1].content = task[t].initial_input
            /\ \A i \in 2..Len(cx.messages) : cx.messages[i].role = "assistant"
            /\ cx.state = "completed"
            /\ cx.iteration = cx.max_iterations
            /\ Response(cx).complete = FALSE

C33_Witness ==
    \E t \in TaskIds :
        /\ task[t].pc = "done"
        /\ NewSession(t)
        /\ task[t].outcome = "returned"
        /\ task[t].calls = MaxIter
        /\ task[t].ended.iteration = MaxIter
        /\ Len(OfRole(task[t].ended, "assistant")) = MaxIter
        /\ Response(task[t].ended).complete = FALSE
\* C34 (as claimed): a COMPLETED context has no error text.
C34_CompletedHasNoError ==
    \A c \in CtxIds : ctx[c].state = "completed" => ctx[c].error = None

\* C35 (as claimed): an engine call ends with AgentTimeoutError and the
\* context TIMEOUT only when its deadline had passed, and a call whose step
\* raised a timeout error of its own ends with the context FAILED.
C35_TimeoutMeansDeadline ==
    \A t \in TaskIds :
        /\ (/\ task[t].pc = "done"
            /\ \/ task[t].outcome = "AgentTimeoutError"
               \/ task[t].ended.state = "timeout") =>
                /\ task[t].cause = "deadline"
                /\ task[t].ended.end_time >= task[t].deadline
        /\ (task[t].pc = "done" /\ task[t].cause = "step_timeout") =>
                task[t].ended.state = "failed"

\* The step of task t is an ask_question call that begins.
Asks(t) ==
    /\ task[t].pc \in {"none", "done"}
    /\ task'[t].pc = "check"
    /\ task'[t].via = "ask_question"
    /\ ncalls' = ncalls + 1

\* C36: an ask_question runs on the context stored under the session_id it
\* is given when that id is a key of the store, and on a context made for
\* it, whose session id is not the one given, in every other case; the
\* response carries the session id of the context the call ran on; the
\* store changes only when an ask_question returns, by the entry of that
\* context, so a call that raises adds nothing.
C36_StoreAndReuse ==
    [][/\ \A t \in TaskIds : Asks(t) =>
            LET c == task'[t].ctx
                asked == task'[t].asked IN
            /\ asked \in DOMAIN sessions => c = sessions[asked].context
            /\ asked \notin DOMAIN sessions =>
                  /\ Fresh(c)
                  /\ ctx'[c].session_id # asked
                  /\ \A k \in DOMAIN sessions : sessions[k].context # c
       /\ \A t \in TaskIds : (Returns(t) /\ task[t].via = "ask_question") =>
            /\ Response(task'[t].ended).session_id = ctx[task[t].ctx].session_id
            /\ task[t].asked \notin DOMAIN sessions =>
                  Response(task'[t].ended).session_id # task[t].asked
            /\ DOMAIN sessions' = DOMAIN sessions \cup {ctx[task[t].ctx].session_id}
            /\ sessions'[ctx[task[t].ctx].session_id].context = task[t].ctx
       /\ sessions' # sessions =>
            \E t \in TaskIds : Returns(t) /\ task[t].via = "ask_question"
       /\ \A t \in TaskIds :
            (/\ task[t].pc \notin {"none", "done"}
             /\ task'[t].pc = "done"
             /\ task'[t].outcome # "returned") => sessions' = sessions]_vars

\* A call that named an unknown session has returned with a session id of
\* its own, now a key of the store, after an earlier call had raised.
C36_Witness ==
    \E t \in TaskIds :
        /\ task[t].pc = "done"
        /\ task[t].via = "ask_question"
        /\ task[t].asked = SessionIdOf("x")
        /\ task[t].outcome = "returned"
        /\ Response(task[t].ended).session_id \in DOMAIN sessions
        /\ task[t].ctx = "c2"
        /\ ctx["c1"].state = "failed"
        /\ SessionIdOf("c1") \notin DOMAIN sessions
\* The process_step calls made on context c by the engine calls on it.
StepsOn(c) ==
    LET n(t) == IF task[t].ctx = c THEN task[t].calls ELSE 0
    IN  n("t1") + n("t2")

\* C37 (as claimed): whatever engine calls run on a context, one after the
\* other or two at a time, its iteration is at most max_iterations and the
\* process_step calls made on it are at most max_iterations.
C37_BoundedWhenShared ==
    \A c \in CtxIds :
        /\ ctx[c].iteration <= ctx[c].max_iterations
        /\ StepsOn(c) <= ctx[c].max_iterations
====
